---- MODULE Spec2Model ----
(***************************************************************************)
(* ChatHandler (src/worker/chat.ts): one processMessage invocation is a    *)
(* turn.  A turn builds the prompt, fetches the tool schemas, makes the    *)
(* primary completion call (streaming when onChunk is given, blocking      *)
(* otherwise), executes the requested tool calls concurrently, and folds   *)
(* their results into a follow-up completion call.                         *)
(*                                                                         *)
(* Every await of the code is a step boundary: the code between two awaits *)
(* runs to completion and is one action.  The completion client, the tool  *)
(* registry and the tool executor are the environment; what they deliver   *)
(* is drawn from the small sets below.  Spec is one invocation over all    *)
(* of them; SpecOverlap is two invocations interleaved at their awaits and *)
(* SpecUpdateModel one invocation with updateModel calls in between, both  *)
(* over a smaller environment.                                             *)
(*                                                                         *)
(* HomePage (src/unnamed/part_000), the chat UI, is modelled next to it,   *)
(* with a specification of its own (SpecUI): its handlers and the          *)
(* callbacks of its sendMessage calls.                                     *)
(*                                                                         *)
(* Text is a TLA+ string, an absent / null / undefined text field is ""    *)
(* (the code tests these fields by truthiness only, so the two are         *)
(* indistinguishable to it).  JS arrays are sequences: JS index i is       *)
(* position i + 1.  A structured (JSON object) value is a set of           *)
(* <<key, JSON text of the value>> pairs, {} being the empty object.       *)
(***************************************************************************)
EXTENDS Integers, Sequences, FiniteSets, TLC

\* ------------------------------------------------------------------ bounds
\* Longest conversation history handed to processMessage.
MaxHistory == 4
\* Most chunks the primary stream delivers before it ends or faults.
MaxChunks == 2

\* Most sendMessage calls the chat UI makes, and most chunks they deliver to
\* their onChunk callbacks, all together.
MaxSends == 2
MaxReplyChunks == 3

\* Invocation ids: Spec makes the first only, SpecOverlap makes both.
AllTurns == {1, 2}

\* ------------------------------------------------------- environment data
\* The text the caller sends (spec.md section 8's scenario message).
UserMessage == "I've selected the Office Staff role."

\* The message of a second invocation, made while the first is in flight.
SecondMessage == "I've selected the Beauty Host role."
MessageOf(t) == IF t = 1 THEN UserMessage ELSE SecondMessage

\* The caller's history: alternating user / assistant messages; the caller's
\* Message carries more than role and content (an id).
HistoryMessage(i) ==
    [role |-> IF i % 2 = 1 THEN "user" ELSE "assistant",
     content |-> "h" \o ToString(i),
     id |-> "m" \o ToString(i)]

HistoryOfLength(n) == [i \in 1..n |-> HistoryMessage(i)]

\* The call slots the model may use, with the id and name it gives each.
Slots == {0, 1}
SlotId(i) == IF i = 0 THEN "call_0" ELSE "call_1"
SlotName(i) == IF i = 0 THEN "lookup" ELSE "echo"

\* Pieces of arguments text: spec.md section 8 splits {"q":"x"} in these two.
ArgHead == "{\"q\":"
ArgTail == "\"x\"}"
ArgsText == ArgHead \o ArgTail

\* Tool-call fragments of a stream chunk for call slot i
\* (ChatCompletionChunk.Choice.Delta.ToolCall: index, id?, function?.name?,
\* function?.arguments?).
Fragment(i, id, name, arguments) ==
    [index |-> i, id |-> id, function |-> [name |-> name, arguments |-> arguments]]

HeadFragments(i) == {Fragment(i, SlotId(i), SlotName(i), a) : a \in {"", ArgHead}}
ContFragments(i) == {Fragment(i, "", "", a) : a \in {ArgHead, ArgTail}}
OtherFragments(i) == {Fragment(i, SlotId(i), "", ""), Fragment(i, "", SlotName(i), "")}
Fragments(i) == HeadFragments(i) \cup ContFragments(i) \cup OtherFragments(i)

\* delta.tool_calls of one chunk: absent, one fragment of either slot, or the
\* first fragments of both slots together.
DeltaToolCalls ==
    {<<>>}
    \cup {<<f>> : f \in Fragments(0) \cup Fragments(1)}
    \cup {<<f, g>> : f \in HeadFragments(0), g \in HeadFragments(1)}

\* delta.content of one chunk ("" when absent).
ContentPieces == {"", "a", "b"}

Chunk(content, tool_calls) == [content |-> content, tool_calls |-> tool_calls]

Chunks ==
    {Chunk(c, <<>>) : c \in ContentPieces}
    \cup {Chunk("", d) : d \in DeltaToolCalls \ {<<>>}}
    \cup {Chunk("a", <<f>>) : f \in HeadFragments(0)}

\* A complete (blocking) tool-call request.
ToolCallRequest(id, name, arguments) ==
    [id |-> id, type |-> "function",
     function |-> [name |-> name, arguments |-> arguments]]

Requests(i) == {ToolCallRequest(SlotId(i), SlotName(i), a) : a \in {"", ArgsText, ArgHead}}

\* message.tool_calls of a blocking response: absent, empty, one or two requests.
ToolCallLists ==
    {[present |-> FALSE, calls |-> <<>>], [present |-> TRUE, calls |-> <<>>]}
    \cup {[present |-> TRUE, calls |-> <<r>>] : r \in Requests(0)}
    \cup {[present |-> TRUE, calls |-> <<r, s>>] : r \in Requests(0), s \in Requests(1)}

\* A blocking completion: choices[0] may be missing; content may be absent.
Completions ==
    {[hasChoice |-> FALSE, content |-> "", tool_calls |-> [present |-> FALSE, calls |-> <<>>]]}
    \cup {[hasChoice |-> TRUE, content |-> c, tool_calls |-> l] :
            c \in {"", "a", "ab"}, l \in ToolCallLists}

\* What executeTool returns, and what it may throw: an Error with a message,
\* or a value that is no Error.
ToolResults == {{<<"v", "1">>}, {<<"v", "2">>}}
Thrown == {[isError |-> TRUE, message |-> "boom"], [isError |-> FALSE, message |-> "rejected"]}

\* Content of the follow-up completion ("" when absent).
FollowUpContents == {"", "final"}

\* The follow-up completion: content, or no content and a further tool-call
\* request (no tools are offered in the follow-up request, but the response
\* type allows it).
FollowUpCompletions ==
    {[content |-> c, tool_calls |-> <<>>] : c \in FollowUpContents}
    \cup {[content |-> "", tool_calls |-> <<ToolCallRequest("call_2", SlotName(0), ArgsText)>>]}

\* ----------------------------------------------------------- pure helpers
\* The fixed system instruction of buildConversationMessages: the rules, then
\* the two scripts with their concluding messages (the questions are elided).
OfficeConclusion ==
    "Thank you for sharing your experiences. That concludes our initial screening. We appreciate your time, and our HR team will be in touch with the next steps. Have a great day!"
BeautyConclusion ==
    "Thank you for your thoughtful answers. That's all the questions I have for now. We appreciate you taking the time to speak with us. Our recruitment team will review your responses and be in contact regarding the next steps. Have a wonderful day!"
systemPrompt ==
    "You are \"AuraHire\", a professional and courteous AI-powered interview agent. [Office Staff script] - Concluding Message: \""
    \o OfficeConclusion \o "\" [Beauty Host script] - Concluding Message: \""
    \o BeautyConclusion \o "\" [Rules of Engagement]"

\* history.map(m => ({ role: m.role, content: m.content }))
RoleAndContent(h) == [i \in 1..Len(h) |-> [role |-> h[i].role, content |-> h[i].content]]

\* The new user message put right after the system message, before the history.
buildConversationMessagesUserFirst(userMessage, history) ==
    <<[role |-> "system", content |-> systemPrompt]>>
    \o <<[role |-> "user", content |-> userMessage]>>
    \o RoleAndContent(history)

buildConversationMessages(userMessage, history) ==
    <<[role |-> "system", content |-> systemPrompt]>>
    \o RoleAndContent(history)
    \o <<[role |-> "user", content |-> userMessage]>>

\* `tool_${Date.now()}_${i}`: the timestamp is abstracted to T.
SyntheticId(i) == "tool_T_" \o ToString(i)

\* Lines 78-95 for the fragment at JS position i of delta.tool_calls: the slot
\* it goes to is its position i in the chunk, not deltaToolCall.index.
MergeFragment(acc, deltaToolCall, i) ==
    IF i + 1 > Len(acc)
    THEN Append(acc,
            [id |-> IF deltaToolCall.id # "" THEN deltaToolCall.id ELSE SyntheticId(i),
             type |-> "function",
             function |-> [name |-> deltaToolCall.function.name,
                           arguments |-> deltaToolCall.function.arguments]])
    ELSE [acc EXCEPT ![i + 1].function =
            [name |-> IF deltaToolCall.function.name # "" /\ @.name = ""
                      THEN deltaToolCall.function.name ELSE @.name,
             arguments |-> @.arguments \o deltaToolCall.function.arguments]]

\* The loop of lines 76-96 from JS position i on.
RECURSIVE AccumulateFrom(_, _, _)
AccumulateFrom(acc, deltaToolCalls, i) ==
    IF i >= Len(deltaToolCalls) THEN acc
    ELSE AccumulateFrom(MergeFragment(acc, deltaToolCalls[i + 1], i), deltaToolCalls, i + 1)

AccumulateToolCalls(acc, deltaToolCalls) == AccumulateFrom(acc, deltaToolCalls, 0)

\* fullContent = delta.content: the buffer keeps the last fragment only.
OverwriteContent(fullContent, content) == content

\* fullContent += delta.content
AppendContent(fullContent, content) == fullContent \o content

\* JSON.parse on the arguments texts that can arise: concatenations of ArgHead
\* and ArgTail, of which only {"q":"x"} is JSON.
JsonValid(text) == text = ArgsText
JsonParse(text) == {<<"q", "\"x\"">>}
SyntaxError == [isError |-> TRUE, message |-> "Unexpected token in JSON"]

\* JSON text of a string value, and JSON.stringify of an object of at most
\* one member.
JsonString(s) == "\"" \o s \o "\""
JsonStringify(obj) ==
    IF obj = {} THEN "{}"
    ELSE LET m == CHOOSE m \in obj : TRUE
         IN "{\"" \o m[1] \o "\":" \o m[2] \o "}"

\* The promise of one map callback of executeToolCalls.
Pending(args) == [state |-> "pending", args |-> args]
Fulfilled(value) == [state |-> "fulfilled", value |-> value]
Rejected(reason) == [state |-> "rejected", reason |-> reason]

\* Lines 142-147: the executor returned.
SettleResult(tc, args, result) ==
    Fulfilled([id |-> tc.id, name |-> tc.function.name, arguments |-> args, result |-> result])

\* error instanceof Error ? error.message : 'Unknown error'
FailureDescription(e) == IF e.isError THEN e.message ELSE "Unknown error"

ErrorResult(name, e) ==
    {<<"error", JsonString("Failed to execute " \o name \o ": " \o FailureDescription(e))>>}

\* The callback without its try/catch: what was thrown rejects its promise.
SettleThrownUncaught(tc, e) == Rejected(FailureDescription(e))

\* Lines 148-156: JSON.parse or the executor threw e; the callback still
\* returns a ToolCall.
SettleThrown(tc, e) ==
    Fulfilled([id |-> tc.id, name |-> tc.function.name, arguments |-> {},
               result |-> ErrorResult(tc.function.name, e)])

\* Lines 139-141 up to the await: empty arguments are {} without parsing,
\* malformed arguments throw before the executor is called.
ArgumentsParse(tc) == tc.function.arguments = "" \/ JsonValid(tc.function.arguments)
ParsedArguments(tc) ==
    IF tc.function.arguments = "" THEN {} ELSE JsonParse(tc.function.arguments)

\* JSON.parse ahead of the try block: a SyntaxError rejects the callback's
\* promise.
StartToolCallParseOutsideTry(tc) ==
    IF ArgumentsParse(tc) THEN Pending(ParsedArguments(tc))
    ELSE Rejected(SyntaxError.message)

StartToolCall(tc) ==
    IF ArgumentsParse(tc) THEN Pending(ParsedArguments(tc)) ELSE SettleThrown(tc, SyntaxError)

\* The executeTool(name, args) invocations the synchronous part of the map makes.
ExecutorInvocations(openAiToolCalls) ==
    SelectSeq([k \in 1..Len(openAiToolCalls) |->
                  [call |-> k, name |-> openAiToolCalls[k].function.name,
                   parses |-> ArgumentsParse(openAiToolCalls[k]),
                   args |-> IF ArgumentsParse(openAiToolCalls[k])
                            THEN ParsedArguments(openAiToolCalls[k]) ELSE {}]],
              LAMBDA c : c.parses)

\* A join that does not wait: fulfilled as soon as one promise is, with the
\* values there are.
PromiseFirst(ps) ==
    IF Len(ps) = 0 \/ \E k \in 1..Len(ps) : ps[k].state = "fulfilled"
    THEN LET done == SelectSeq(ps, LAMBDA q : q.state = "fulfilled")
         IN Fulfilled([k \in 1..Len(done) |-> done[k].value])
    ELSE [state |-> "pending"]

\* Promise.all over the callbacks' promises: rejected as soon as one is,
\* fulfilled (with the values in the array's order) once all are.
PromiseAll(ps) ==
    IF \E k \in 1..Len(ps) : ps[k].state = "rejected"
    THEN Rejected((ps[CHOOSE k \in 1..Len(ps) : ps[k].state = "rejected"]).reason)
    ELSE IF \A k \in 1..Len(ps) : ps[k].state = "fulfilled"
    THEN Fulfilled([k \in 1..Len(ps) |-> ps[k].value])
    ELSE [state |-> "pending"]

\* history.slice(-3)
HistoryWindow == 3
\* history.slice(0, 3): the first messages instead of the last.
SliceFirst(h, n) == SubSeq(h, 1, IF Len(h) > n THEN n ELSE Len(h))
SliceLast(h, n) == SubSeq(h, IF Len(h) > n THEN Len(h) - n + 1 ELSE 1, Len(h))

\* Lines 180-184.
ToolMessage(result, index, openAiToolCalls) ==
    [role |-> "tool",
     content |-> JsonStringify(result.result),
     tool_call_id |-> IF index <= Len(openAiToolCalls) /\ openAiToolCalls[index].id # ""
                      THEN openAiToolCalls[index].id ELSE result.id]

FollowUpSystem == "You are a helpful AI assistant. Respond naturally to the tool results."
Null == "null"

\* Lines 171-185: the messages of the follow-up completion request.
FollowUpMessages(userMessage, history, openAiToolCalls, toolResults) ==
    <<[role |-> "system", content |-> FollowUpSystem]>>
    \o RoleAndContent(SliceLast(history, HistoryWindow))
    \o <<[role |-> "user", content |-> userMessage]>>
    \o <<[role |-> "assistant", content |-> Null, tool_calls |-> openAiToolCalls]>>
    \o [k \in 1..Len(toolResults) |-> ToolMessage(toolResults[k], k, openAiToolCalls)]

\* The fallback texts of lines 117, 121 and 188.
NoChoiceFallback == "I apologize, but I encountered an issue processing your request."
NoContentFallback == "I apologize, but I encountered an issue."
FollowUpFallback == "Tool results processed successfully."

\* The errors a turn can fail with.
StreamError == "Stream processing failed"
RegistryError == "tool registry failure"
CompletionError == "completion client failure"

\* ------------------------------------------------------------------ state
(***************************************************************************)
(* turn[t] is invocation t of processMessage: its arguments, the locals of *)
(* the handler that runs it, and what the environment has seen of it.      *)
(*   pc            where the invocation is: "unused" (never made), "idle"  *)
(*                 (not yet made), "listing" (await getToolDefinitions),   *)
(*                 "primary" (await create), "streaming" (for await),      *)
(*                 "tools" (await Promise.all), "followup" (await create   *)
(*                 in generateToolResponse), "returned", "failed"          *)
(*   message, conversationHistory, onChunk   the arguments (onChunk: given)*)
(*   messages      the primary request (buildConversationMessages)         *)
(*   stream        the chunks the primary stream has delivered so far      *)
(*   completion    the blocking completion received                        *)
(*   fullContent, accumulatedToolCalls   locals of handleStreamResponse    *)
(*   forwarded     the arguments of the onChunk calls made, in order       *)
(*   promises      the promises of executeToolCalls' map callbacks         *)
(*   executorCalls the executeTool invocations made                        *)
(*   outcomes      what the executor did for each call: "running",         *)
(*                 "returned" (with its value), "threw" (with what it      *)
(*                 threw), or "unparsed" (never invoked)                   *)
(*   completionOrder  the calls in the order their promises settled        *)
(*   faulted       the primary stream raised while being consumed          *)
(*   registryFailed  getToolDefinitions rejected                           *)
(*   executedTools what await executeToolCalls(...) returned               *)
(*   followUpRequest  the messages of the follow-up create call            *)
(*   followUpCompletion  the follow-up completion received                 *)
(*   completionCalls  how many create calls were made                      *)
(*   primaryModel, followUpModel  the model identifier each create call    *)
(*                 was given ("" while the call is not made)               *)
(*   result        the TurnResult returned (toolCalls present or not)      *)
(*   error         the message of the error the invocation failed with     *)
(***************************************************************************)
(***************************************************************************)
(* page is the chat UI (HomePage, src/unnamed/part_000): its five state    *)
(* cells and what lives outside them.                                      *)
(*   role, messages, input, isLoading, interviewStage   the useState cells *)
(*                 (role "" is null)                                       *)
(*   sends         the sendMessage calls in flight, each with the locals   *)
(*                 its callbacks close over: the handler that made it, the *)
(*                 message sent, assistantMessageId and streamingMessage   *)
(*   uuids         how many ids crypto.randomUUID() has handed out         *)
(*   started       how many sendMessage calls were made                    *)
(*   delivered     how many onChunk calls were made                        *)
(*   rejected      some sendMessage call rejected                          *)
(***************************************************************************)
(***************************************************************************)
(* chatHandler is the ChatHandler object the invocations run on: its one   *)
(* mutable field, model (lines 13, 20, 236).  The client is never          *)
(* reassigned.                                                             *)
(***************************************************************************)
VARIABLES turn, page, chatHandler

vars == <<turn, page, chatHandler>>

NoCompletion ==
    [hasChoice |-> FALSE, content |-> "", tool_calls |-> [present |-> FALSE, calls |-> <<>>]]
NoResult == [content |-> "", hasToolCalls |-> FALSE, toolCalls |-> <<>>]

NewTurn(pc) ==
    [pc |-> pc, message |-> "", conversationHistory |-> <<>>, onChunk |-> FALSE,
     messages |-> <<>>, stream |-> <<>>, completion |-> NoCompletion,
     fullContent |-> "", accumulatedToolCalls |-> <<>>, forwarded |-> <<>>,
     promises |-> <<>>, executorCalls |-> <<>>, outcomes |-> <<>>,
     completionOrder |-> <<>>, faulted |-> FALSE, registryFailed |-> FALSE,
     executedTools |-> <<>>, followUpRequest |-> <<>>,
     followUpCompletion |-> [content |-> "", tool_calls |-> <<>>], completionCalls |-> 0,
     primaryModel |-> "", followUpModel |-> "",
     result |-> NoResult, error |-> ""]

\* The greeting the first effect puts into the empty message list (lines 24-34).
Welcome ==
    "Welcome to AuraHire. I'm your AI-powered interview agent. To begin, please select the role you're applying for from the dropdown menu above."
WelcomeMessage(id) == [id |-> id, role |-> "assistant", content |-> Welcome]

\* The page after its first render and effect.
InitialPage ==
    [role |-> "", messages |-> <<WelcomeMessage(1)>>, input |-> "", isLoading |-> FALSE,
     interviewStage |-> "start", sends |-> <<>>, uuids |-> 1, started |-> 0,
     delivered |-> 0, rejected |-> FALSE]

\* The model identifier the constructor is given (line 20), and one that
\* updateModel may be given (line 235).
ConstructedModel == "model-a"
OtherModel == "model-b"

\* The ChatHandler after its constructor (lines 14-21).
InitialHandler == [model |-> ConstructedModel]

\* One invocation is made; the other is never made.  The page is mounted.
Init ==
    /\ turn = [t \in AllTurns |-> NewTurn(IF t = 1 THEN "idle" ELSE "unused")]
    /\ page = InitialPage
    /\ chatHandler = InitialHandler

\* The requests handed to executeToolCalls and to generateToolResponse.
OpenAiToolCalls(s) ==
    IF s.onChunk THEN s.accumulatedToolCalls ELSE s.completion.tool_calls.calls

\* return { content } (lines 108, 117, 120-122)
ReturnContent(s, content) ==
    [s EXCEPT !.pc = "returned",
              !.result = [content |-> content, hasToolCalls |-> FALSE, toolCalls |-> <<>>]]

\* A rejected await that nothing catches: the invocation rejects with it.
Fail(s, error) == [s EXCEPT !.pc = "failed", !.error = error]

\* executeToolCalls up to its await: every callback runs to its first await,
\* in the array's order (lines 137-141).
BeginToolCalls(s, openAiToolCalls) ==
    LET ps == [k \in 1..Len(openAiToolCalls) |-> StartToolCall(openAiToolCalls[k])]
    IN [s EXCEPT !.pc = "tools",
                 !.promises = ps,
                 !.executorCalls = ExecutorInvocations(openAiToolCalls),
                 !.outcomes = [k \in 1..Len(ps) |->
                                  [kind |-> IF ps[k].state = "pending" THEN "running"
                                            ELSE "unparsed"]],
                 !.completionOrder =
                     SelectSeq([k \in 1..Len(ps) |-> k], LAMBDA k : ps[k].state # "pending")]

\* processMessage, lines 33-34: the prompt is built, the schemas are awaited.
ProcessMessage(t) ==
    /\ turn[t].pc = "idle"
    /\ \E n \in 0..MaxHistory, onChunk \in BOOLEAN :
         turn' = [turn EXCEPT ![t] =
                    [@ EXCEPT !.pc = "listing",
                              !.message = MessageOf(t),
                              !.conversationHistory = HistoryOfLength(n),
                              !.onChunk = onChunk,
                              !.messages = buildConversationMessages(MessageOf(t), HistoryOfLength(n))]]
    /\ UNCHANGED <<page, chatHandler>>

\* getToolDefinitions resolved: the primary create call is made (lines 37, 49).
ToolDefinitionsReturn(t) ==
    /\ turn[t].pc = "listing"
    /\ turn' = [turn EXCEPT ![t] = [@ EXCEPT !.pc = "primary",
                                              !.primaryModel = chatHandler.model,
                                              !.completionCalls = @ + 1]]
    /\ UNCHANGED <<page, chatHandler>>

\* A rejected getToolDefinitions caught and taken for "no tools": the primary
\* create call is made all the same.
ToolDefinitionsFailCaught(t) ==
    /\ turn[t].pc = "listing"
    /\ turn' = [turn EXCEPT ![t] =
                  [@ EXCEPT !.pc = "primary", !.registryFailed = TRUE,
                            !.primaryModel = chatHandler.model, !.completionCalls = @ + 1]]
    /\ UNCHANGED <<page, chatHandler>>

\* getToolDefinitions rejected (line 34): nothing catches it.
ToolDefinitionsFail(t) ==
    /\ turn[t].pc = "listing"
    /\ turn' = [turn EXCEPT ![t] = Fail([@ EXCEPT !.registryFailed = TRUE], RegistryError)]
    /\ UNCHANGED <<page, chatHandler>>

\* The primary create call rejected (lines 37, 49).
PrimaryFails(t) ==
    /\ turn[t].pc = "primary"
    /\ turn' = [turn EXCEPT ![t] = Fail(@, CompletionError)]
    /\ UNCHANGED <<page, chatHandler>>

\* The streaming create call resolved: handleStreamResponse starts (lines 65-68).
StreamOpens(t) ==
    /\ turn[t].pc = "primary"
    /\ turn[t].onChunk
    /\ turn' = [turn EXCEPT ![t] = [@ EXCEPT !.pc = "streaming"]]
    /\ UNCHANGED <<page, chatHandler>>

\* An iteration that hands onChunk the buffer so far, not the fragment.
ConsumeChunkForwardingBuffer(s, chunk) ==
    [s EXCEPT !.stream = Append(@, chunk),
              !.fullContent = IF chunk.content # "" THEN AppendContent(@, chunk.content) ELSE @,
              !.forwarded = IF chunk.content # ""
                            THEN Append(@, AppendContent(s.fullContent, chunk.content)) ELSE @,
              !.accumulatedToolCalls = AccumulateToolCalls(@, chunk.tool_calls)]

\* One iteration of the for await loop (lines 68-98).
ConsumeChunk(s, chunk) ==
    [s EXCEPT !.stream = Append(@, chunk),
              !.fullContent = IF chunk.content # "" THEN AppendContent(@, chunk.content) ELSE @,
              !.forwarded = IF chunk.content # "" THEN Append(@, chunk.content) ELSE @,
              !.accumulatedToolCalls = AccumulateToolCalls(@, chunk.tool_calls)]

\* The content buffer as a field of the ChatHandler rather than a local of
\* handleStreamResponse: every invocation appends to, and reads, the one buffer.
StreamChunkSharedBuffer(t) ==
    /\ turn[t].pc = "streaming"
    /\ Len(turn[t].stream) < MaxChunks
    /\ \E chunk \in Chunks :
         turn' = [u \in AllTurns |->
                    [(IF u = t THEN ConsumeChunk(turn[u], chunk) ELSE turn[u])
                        EXCEPT !.fullContent =
                                   IF chunk.content # ""
                                   THEN AppendContent(turn[t].fullContent, chunk.content)
                                   ELSE turn[t].fullContent]]
    /\ UNCHANGED <<page, chatHandler>>

StreamChunk(t) ==
    /\ turn[t].pc = "streaming"
    /\ Len(turn[t].stream) < MaxChunks
    /\ \E chunk \in Chunks : turn' = [turn EXCEPT ![t] = ConsumeChunk(@, chunk)]
    /\ UNCHANGED <<page, chatHandler>>

\* Lines 103-108: the stream ended.
OnStreamEnd(s) ==
    IF Len(s.accumulatedToolCalls) > 0
    THEN BeginToolCalls(s, s.accumulatedToolCalls)
    ELSE ReturnContent(s, s.fullContent)

\* A catch block that only logs: the handler goes on with what it has.
OnStreamFaultSwallowed(s) == OnStreamEnd(s)

\* Lines 99-102: what the catch block makes of a fault of the stream.
OnStreamFault(s) == Fail(s, StreamError)

\* The stream raised while being consumed.
StreamFault(t) ==
    /\ turn[t].pc = "streaming"
    /\ turn' = [turn EXCEPT ![t] = OnStreamFault([@ EXCEPT !.faulted = TRUE])]
    /\ UNCHANGED <<page, chatHandler>>

StreamEnd(t) ==
    /\ turn[t].pc = "streaming"
    /\ turn' = [turn EXCEPT ![t] = OnStreamEnd(@)]
    /\ UNCHANGED <<page, chatHandler>>

\* handleNonStreamResponse up to its first await (lines 115-124).
handleNonStreamResponse(s, completion) ==
    LET r == [s EXCEPT !.completion = completion]
    IN IF ~completion.hasChoice THEN ReturnContent(r, NoChoiceFallback)
       ELSE IF ~completion.tool_calls.present
       THEN ReturnContent(r, IF completion.content # "" THEN completion.content
                             ELSE NoContentFallback)
       ELSE BeginToolCalls(r, completion.tool_calls.calls)

\* The blocking create call resolved.
CompletionReturns(t) ==
    /\ turn[t].pc = "primary"
    /\ ~turn[t].onChunk
    /\ \E completion \in Completions :
         turn' = [turn EXCEPT ![t] = handleNonStreamResponse(@, completion)]
    /\ UNCHANGED <<page, chatHandler>>

\* Results pushed to a shared array as they arrive: the settled promise takes
\* the first position still pending.
StoreInCompletionOrder(ps, k, p) ==
    LET j == CHOOSE j \in 1..Len(ps) :
                 /\ ps[j].state = "pending"
                 /\ \A i \in 1..(j - 1) : ps[i].state # "pending"
    IN [ps EXCEPT ![j] = p, ![k] = IF j = k THEN p ELSE ps[j]]

\* The promise of callback k settles as p: Promise.all keeps every promise at
\* the position of its request (lines 137-138).
StoreSettled(ps, k, p) == [ps EXCEPT ![k] = p]

\* executeTool returned for call k (lines 141-147).
ToolReturns(t, k) ==
    /\ k \in 1..Len(turn[t].promises)
    /\ turn[t].promises[k].state = "pending"
    /\ \E result \in ToolResults :
         turn' = [turn EXCEPT ![t] =
                    [@ EXCEPT !.promises =
                                  StoreSettled(@, k,
                                      SettleResult(OpenAiToolCalls(turn[t])[k], @[k].args, result)),
                              !.outcomes[k] = [kind |-> "returned", value |-> result],
                              !.completionOrder = Append(@, k)]]
    /\ UNCHANGED <<page, chatHandler>>

\* executeTool threw for call k (lines 148-156).
ToolThrows(t, k) ==
    /\ k \in 1..Len(turn[t].promises)
    /\ turn[t].promises[k].state = "pending"
    /\ \E e \in Thrown :
         turn' = [turn EXCEPT ![t] =
                    [@ EXCEPT !.promises =
                                  StoreSettled(@, k, SettleThrown(OpenAiToolCalls(turn[t])[k], e)),
                              !.outcomes[k] = [kind |-> "threw", thrown |-> e],
                              !.completionOrder = Append(@, k)]]
    /\ UNCHANGED <<page, chatHandler>>

\* generateToolResponse up to its await: the follow-up create call is made.
generateToolResponse(s, model, openAiToolCalls, toolResults) ==
    [s EXCEPT !.pc = "followup",
              !.executedTools = toolResults,
              !.followUpModel = model,
              !.followUpRequest =
                  FollowUpMessages(s.message, s.conversationHistory, openAiToolCalls, toolResults),
              !.completionCalls = @ + 1]

\* await Promise.all(...) is over (lines 104-105, 124-125).
AwaitToolCalls(t) ==
    /\ turn[t].pc = "tools"
    /\ PromiseAll(turn[t].promises).state # "pending"
    /\ turn' = [turn EXCEPT ![t] =
                  IF PromiseAll(turn[t].promises).state = "rejected"
                  THEN Fail(@, PromiseAll(turn[t].promises).reason)
                  ELSE generateToolResponse(@, chatHandler.model, OpenAiToolCalls(turn[t]),
                                            PromiseAll(turn[t].promises).value)]
    /\ UNCHANGED <<page, chatHandler>>

\* The text of the primary response put in front of the follow-up's.
FinalResponseAfterPrimary(s, followUpCompletion) ==
    (IF s.onChunk THEN s.fullContent ELSE s.completion.content)
    \o (IF followUpCompletion.content # "" THEN followUpCompletion.content
        ELSE FollowUpFallback)

\* Line 188: what generateToolResponse returns.
FinalResponse(s, followUpCompletion) ==
    IF followUpCompletion.content # "" THEN followUpCompletion.content ELSE FollowUpFallback

\* A tool-calling loop: the requests of the follow-up response are executed
\* in a further round.
OnFollowUpLooping(s, followUpCompletion) ==
    IF followUpCompletion.tool_calls # <<>>
    THEN BeginToolCalls([s EXCEPT !.followUpCompletion = followUpCompletion,
                                  !.accumulatedToolCalls = followUpCompletion.tool_calls,
                                  !.completion.tool_calls.calls = followUpCompletion.tool_calls],
                        followUpCompletion.tool_calls)
    ELSE [s EXCEPT !.pc = "returned",
                   !.followUpCompletion = followUpCompletion,
                   !.result = [content |-> FinalResponse(s, followUpCompletion),
                               hasToolCalls |-> TRUE,
                               toolCalls |-> s.executedTools]]

\* A follow-up response handed to onChunk as well, where there is one.
OnFollowUpStreamed(s, followUpCompletion) ==
    [s EXCEPT !.pc = "returned",
              !.followUpCompletion = followUpCompletion,
              !.forwarded = IF s.onChunk /\ followUpCompletion.content # ""
                            THEN Append(@, followUpCompletion.content) ELSE @,
              !.result = [content |-> FinalResponse(s, followUpCompletion),
                          hasToolCalls |-> TRUE,
                          toolCalls |-> s.executedTools]]

\* Lines 106 and 131: return { content: finalResponse, toolCalls }.
OnFollowUp(s, followUpCompletion) ==
    [s EXCEPT !.pc = "returned",
              !.followUpCompletion = followUpCompletion,
              !.result = [content |-> FinalResponse(s, followUpCompletion),
                          hasToolCalls |-> TRUE,
                          toolCalls |-> s.executedTools]]

\* The follow-up create call resolved (lines 188, 106, 131).
FollowUpReturns(t) ==
    /\ turn[t].pc = "followup"
    /\ \E followUpCompletion \in FollowUpCompletions :
         turn' = [turn EXCEPT ![t] = OnFollowUp(@, followUpCompletion)]
    /\ UNCHANGED <<page, chatHandler>>

\* The try block of handleStreamResponse closed after the tool round instead
\* of after the loop: a rejected follow-up call is rethrown by its catch block.
FollowUpFailsInsideTry(t) ==
    /\ turn[t].pc = "followup"
    /\ turn' = [turn EXCEPT ![t] =
                  Fail(@, IF turn[t].onChunk THEN StreamError ELSE CompletionError)]
    /\ UNCHANGED <<page, chatHandler>>

\* The follow-up create call rejected (line 169).
FollowUpFails(t) ==
    /\ turn[t].pc = "followup"
    /\ turn' = [turn EXCEPT ![t] = Fail(@, CompletionError)]
    /\ UNCHANGED <<page, chatHandler>>

Next ==
    \E t \in AllTurns :
        \/ ProcessMessage(t)
        \/ ToolDefinitionsReturn(t)
        \/ ToolDefinitionsFail(t)
        \/ PrimaryFails(t)
        \/ StreamOpens(t)
        \/ StreamChunk(t)
        \/ StreamFault(t)
        \/ StreamEnd(t)
        \/ CompletionReturns(t)
        \/ \E k \in 1..Len(turn[t].promises) : ToolReturns(t, k)
        \/ \E k \in 1..Len(turn[t].promises) : ToolThrows(t, k)
        \/ AwaitToolCalls(t)
        \/ FollowUpReturns(t)
        \/ FollowUpFails(t)

Spec == Init /\ [][Next]_vars

\* ------------------------------------------------- overlapping invocations
(***************************************************************************)
(* processMessage is an async method: while one invocation waits at an     *)
(* await, the caller may make another on the same ChatHandler, and the     *)
(* steps of the two interleave at their awaits.  SpecOverlap makes both    *)
(* invocations of AllTurns, with different messages and histories, over a  *)
(* smaller environment: content chunks and one tool-call chunk, a blocking *)
(* completion with content or with one request, tools that return or throw *)
(* an Error, and a follow-up completion without tool calls.                *)
(***************************************************************************)
OverlapChunks ==
    {Chunk(c, <<>>) : c \in {"a", "b"}}
    \cup {Chunk("", <<Fragment(0, SlotId(0), SlotName(0), "")>>)}

OverlapCompletions ==
    {[hasChoice |-> TRUE, content |-> "ab", tool_calls |-> [present |-> FALSE, calls |-> <<>>]],
     [hasChoice |-> TRUE, content |-> "",
      tool_calls |-> [present |-> TRUE, calls |-> <<ToolCallRequest(SlotId(0), SlotName(0), "")>>]]}

\* Both invocations are to be made.
InitOverlap ==
    /\ turn = [t \in AllTurns |-> NewTurn("idle")]
    /\ page = InitialPage
    /\ chatHandler = InitialHandler

NextOverlap ==
    \E t \in AllTurns :
        \/ ProcessMessage(t) /\ Len(turn'[t].conversationHistory) = t
        \/ ToolDefinitionsReturn(t)
        \/ StreamOpens(t)
        \/ StreamChunk(t) /\ turn'[t].stream[Len(turn'[t].stream)] \in OverlapChunks
        \/ StreamFault(t)
        \/ StreamEnd(t)
        \/ CompletionReturns(t) /\ turn'[t].completion \in OverlapCompletions
        \/ \E k \in 1..Len(turn[t].promises) : ToolReturns(t, k)
        \/ \E k \in 1..Len(turn[t].promises) : ToolThrows(t, k) /\ turn'[t].outcomes[k].thrown.isError
        \/ AwaitToolCalls(t)
        \/ FollowUpReturns(t) /\ turn'[t].followUpCompletion.tool_calls = <<>>
        \/ FollowUpFails(t)

SpecOverlap == InitOverlap /\ [][NextOverlap]_vars

\* ------------------------------------------------------------ updateModel
(***************************************************************************)
(* updateModel is synchronous and may be called whenever no code of the    *)
(* ChatHandler runs: before an invocation, after it, or while it waits at  *)
(* one of its awaits.  SpecUpdateModel is one invocation over the smaller  *)
(* environment, with updateModel called at any such moment.                *)
(***************************************************************************)
Models == {ConstructedModel, OtherModel}

\* updateModel(newModel), lines 235-237.
updateModel(h, newModel) == [h EXCEPT !.model = newModel]

UpdateModel ==
    /\ \E newModel \in Models : chatHandler' = updateModel(chatHandler, newModel)
    /\ UNCHANGED <<turn, page>>

NextUpdateModel == NextOverlap \/ UpdateModel

SpecUpdateModel == Init /\ [][NextUpdateModel]_vars

\* ---------------------------------------------------------------- chat UI
(***************************************************************************)
(* HomePage (src/unnamed/part_000).  A handler runs to completion and is   *)
(* one action; the callbacks of a sendMessage call (onChunk, and what      *)
(* follows the call's settling) are actions of their own.  chatService is  *)
(* the environment: a call delivers chunks of the assistant's reply to     *)
(* onChunk and then resolves, or rejects.  State setters take effect with  *)
(* the handler that calls them; an effect runs with the render it follows. *)
(***************************************************************************)
InterviewRoles == {"Office Staff", "Beauty Host"}

\* What the user may have typed into the answer box.
Inputs == {"", "  ", "I led a team."}

\* The pieces the assistant's reply arrives in: the opening of a question, the
\* two concluding messages of the script, and a sentence of thanks that is in
\* neither script.
FirstQuestion == "Great, let's begin."
Thanks == "Thank you for your time."
ReplyPieces == {FirstQuestion, OfficeConclusion, BeautyConclusion, Thanks}

\* How a sendMessage call may settle.
SendOutcomes == {"resolved", "rejected"}

\* String.prototype.toLowerCase, includes and trim on the texts that occur.
CharAt(s, i) == SubSeq(s, i, i)
UpperCaseLetters == "ABCDEFGHIJKLMNOPQRSTUVWXYZ"
LowerCaseLetters == "abcdefghijklmnopqrstuvwxyz"
LowerOf(c) ==
    IF \E j \in 1..Len(UpperCaseLetters) : CharAt(UpperCaseLetters, j) = c
    THEN CharAt(LowerCaseLetters, CHOOSE j \in 1..Len(UpperCaseLetters) : CharAt(UpperCaseLetters, j) = c)
    ELSE c

\* Character by character, the text split in halves.  (The text is bound to
\* its value first, so that it is evaluated once.)
RECURSIVE toLowerCase(_)
toLowerCase(s) ==
    LET Lowered(text) ==
            IF Len(text) <= 1 THEN LowerOf(text)
            ELSE toLowerCase(SubSeq(text, 1, Len(text) \div 2))
                 \o toLowerCase(SubSeq(text, Len(text) \div 2 + 1, Len(text)))
    IN CHOOSE lowered \in {Lowered(text) : text \in {s}} : TRUE

includes(s, searchString) ==
    \E text \in {s} :
        \E i \in 1..(Len(text) - Len(searchString) + 1) :
            SubSeq(text, i, i + Len(searchString) - 1) = searchString

WhiteSpace == {" ", "\t", "\n"}
RECURSIVE trimStart(_)
trimStart(s) ==
    IF s # "" /\ CharAt(s, 1) \in WhiteSpace THEN trimStart(SubSeq(s, 2, Len(s))) ELSE s
RECURSIVE trimEnd(_)
trimEnd(s) ==
    IF s # "" /\ CharAt(s, Len(s)) \in WhiteSpace THEN trimEnd(SubSeq(s, 1, Len(s) - 1)) ELSE s
trim(s) == trimEnd(trimStart(s))

\* `I've selected the ${selectedRole} role.`
StartMessage(selectedRole) == "I've selected the " \o selectedRole \o " role."

\* The text whose presence in the lower-cased reply ends the interview
\* (lines 68 and 97).
EndOfInterviewText == "thank you for your time"

\* The locals a sendMessage call's callbacks close over.
NewSend(handler, message, assistantMessageId) ==
    [handler |-> handler, message |-> message, assistantMessageId |-> assistantMessageId,
     streamingMessage |-> ""]

\* handleRoleSelect without its first line: the role is taken and the
\* selection message sent in whatever stage the interview is.
handleRoleSelectAnyStage(p, selectedRole) ==
    LET startMessage == StartMessage(selectedRole)
        userMessage == [id |-> p.uuids + 1, role |-> "user", content |-> startMessage]
        assistantMessageId == p.uuids + 2
    IN [p EXCEPT !.role = selectedRole,
                 !.interviewStage = "in_progress",
                 !.isLoading = TRUE,
                 !.messages = @ \o <<userMessage,
                                     [id |-> assistantMessageId, role |-> "assistant",
                                      content |-> ""]>>,
                 !.uuids = @ + 2,
                 !.started = @ + 1,
                 !.sends = Append(@, NewSend("handleRoleSelect", startMessage,
                                             assistantMessageId))]

\* Lines 45-55.
handleRoleSelect(p, selectedRole) ==
    IF p.interviewStage # "start" THEN p
    ELSE LET startMessage == StartMessage(selectedRole)
             userMessage == [id |-> p.uuids + 1, role |-> "user", content |-> startMessage]
             assistantMessageId == p.uuids + 2
         IN [p EXCEPT !.role = selectedRole,
                      !.interviewStage = "in_progress",
                      !.isLoading = TRUE,
                      !.messages = @ \o <<userMessage,
                                          [id |-> assistantMessageId, role |-> "assistant",
                                           content |-> ""]>>,
                      !.uuids = @ + 2,
                      !.started = @ + 1,
                      !.sends = Append(@, NewSend("handleRoleSelect", startMessage,
                                                  assistantMessageId))]

\* Lines 73-84.
handleSubmit(p) ==
    IF trim(p.input) = "" \/ p.isLoading \/ p.interviewStage # "in_progress" THEN p
    ELSE LET userMessage == [id |-> p.uuids + 1, role |-> "user", content |-> p.input]
             currentInput == p.input
             assistantMessageId == p.uuids + 2
         IN [p EXCEPT !.messages = @ \o <<userMessage,
                                          [id |-> assistantMessageId, role |-> "assistant",
                                           content |-> ""]>>,
                      !.input = "",
                      !.isLoading = TRUE,
                      !.uuids = @ + 2,
                      !.started = @ + 1,
                      !.sends = Append(@, NewSend("handleSubmit", currentInput,
                                                  assistantMessageId))]

\* Lines 101-108, and the effect of lines 24-34 that follows the render.
handleNewInterview(p) ==
    [p EXCEPT !.role = "",
              !.messages = <<WelcomeMessage(p.uuids + 1)>>,
              !.input = "",
              !.isLoading = FALSE,
              !.interviewStage = "start",
              !.uuids = @ + 1]

\* The updater of lines 57-65 and 86-94.
WithContent(messages, assistantMessageId, streamingMessage) ==
    IF Len(messages) > 0 /\ messages[Len(messages)].id = assistantMessageId
    THEN [messages EXCEPT ![Len(messages)].content = streamingMessage]
    ELSE [j \in 1..Len(messages) |->
            IF messages[j].id = assistantMessageId
            THEN [messages[j] EXCEPT !.content = streamingMessage] ELSE messages[j]]

\* The onChunk callback of call i (lines 55-65, 84-95).
onChunk(p, i, chunk) ==
    LET streamingMessage == p.sends[i].streamingMessage \o chunk
    IN [p EXCEPT !.sends[i].streamingMessage = streamingMessage,
                 !.delivered = @ + 1,
                 !.messages = WithContent(@, p.sends[i].assistantMessageId, streamingMessage)]

\* The calls in flight but call i.
Without(sends, i) == SubSeq(sends, 1, i - 1) \o SubSeq(sends, i + 1, Len(sends))

\* What follows the resolving of call i (lines 66-71, 96-99).
onResolved(p, i) ==
    [p EXCEPT !.isLoading = FALSE,
              !.interviewStage =
                  IF includes(toLowerCase(p.sends[i].streamingMessage), EndOfInterviewText)
                  THEN "finished" ELSE @,
              !.sends = Without(@, i)]

\* Call i rejected: the then callback of line 66 is skipped, the await of
\* line 84 throws out of handleSubmit; no handler of the page catches it.
onRejected(p, i) == [p EXCEPT !.sends = Without(@, i), !.rejected = TRUE]

\* What the render enables (lines 122, 172-175, 189).
RoleSelectorEnabled(p) == p.interviewStage = "start"
AnswerInputEnabled(p) ==
    p.interviewStage # "finished" /\ ~(p.isLoading \/ p.interviewStage # "in_progress")
NewInterviewShown(p) == p.interviewStage = "finished"

\* The user picks a role (onValueChange, line 122).
SelectRole ==
    /\ page.started < MaxSends
    /\ \E selectedRole \in InterviewRoles : page' = handleRoleSelect(page, selectedRole)
    /\ UNCHANGED <<turn, chatHandler>>

\* The user types (onChange, line 184).
TypeInput ==
    /\ AnswerInputEnabled(page)
    /\ \E value \in Inputs : page' = [page EXCEPT !.input = value]
    /\ UNCHANGED <<turn, chatHandler>>

\* The form is submitted (lines 181, 185).
Submit ==
    /\ page.started < MaxSends
    /\ page' = handleSubmit(page)
    /\ UNCHANGED <<turn, chatHandler>>

\* The user presses Start New Interview (line 175).
NewInterview ==
    /\ NewInterviewShown(page)
    /\ page.started < MaxSends
    /\ page' = handleNewInterview(page)
    /\ UNCHANGED <<turn, chatHandler>>

SendChunk(i) ==
    /\ i \in 1..Len(page.sends)
    /\ page.delivered < MaxReplyChunks
    /\ \E chunk \in ReplyPieces : page' = onChunk(page, i, chunk)
    /\ UNCHANGED <<turn, chatHandler>>

SendResolves(i) ==
    /\ i \in 1..Len(page.sends)
    /\ "resolved" \in SendOutcomes
    /\ page' = onResolved(page, i)
    /\ UNCHANGED <<turn, chatHandler>>

SendRejects(i) ==
    /\ i \in 1..Len(page.sends)
    /\ "rejected" \in SendOutcomes
    /\ page' = onRejected(page, i)
    /\ UNCHANGED <<turn, chatHandler>>

NextUI ==
    \/ SelectRole
    \/ TypeInput
    \/ Submit
    \/ NewInterview
    \/ \E i \in 1..Len(page.sends) : SendChunk(i)
    \/ \E i \in 1..Len(page.sends) : SendResolves(i)
    \/ \E i \in 1..Len(page.sends) : SendRejects(i)

SpecUI == Init /\ [][NextUI]_vars

\* The event loop runs the callbacks of a call once it has settled, and a call
\* does settle; the user is under no obligation.
SendSettles == \E i \in 1..Len(page.sends) : SendResolves(i) \/ SendRejects(i)
FairSpecUI == SpecUI /\ WF_vars(SendSettles)

\* ------------------------------------------------- what the model asked for
(***************************************************************************)
(* The reading of a stream the claims are stated against: a tool-call      *)
(* fragment belongs to the call slot its index field names.                *)
(***************************************************************************)
RECURSIVE FragmentsOf(_)
FragmentsOf(stream) ==
    IF stream = <<>> THEN <<>> ELSE Head(stream).tool_calls \o FragmentsOf(Tail(stream))

RECURSIVE ContentOf(_)
ContentOf(stream) ==
    IF stream = <<>> THEN "" ELSE Head(stream).content \o ContentOf(Tail(stream))

\* The fragments of call slot i, in arrival order.
SlotFragments(stream, i) == SelectSeq(FragmentsOf(stream), LAMBDA f : f.index = i)

RECURSIVE ArgumentsOf(_)
ArgumentsOf(fragments) ==
    IF fragments = <<>> THEN ""
    ELSE Head(fragments).function.arguments \o ArgumentsOf(Tail(fragments))

\* The call slots a stream uses, and the slot of its k-th request.
SlotsOf(stream) == {i \in Slots : SlotFragments(stream, i) # <<>>}
SlotOfRequest(stream, k) ==
    CHOOSE i \in SlotsOf(stream) : Cardinality({j \in SlotsOf(stream) : j < i}) = k - 1

\* Every call slot opens with a fragment that carries its id and name.
WellFormed(stream) ==
    \A i \in SlotsOf(stream) :
        LET first == Head(SlotFragments(stream, i))
        IN first.id # "" /\ first.function.name # ""

\* The tool-call requests of the primary response of a turn, as the model
\* made them: (id, name) per request, in request order.
RequestedCalls(s) ==
    IF s.onChunk
    THEN [k \in 1..Cardinality(SlotsOf(s.stream)) |->
            LET first == Head(SlotFragments(s.stream, SlotOfRequest(s.stream, k)))
            IN [id |-> first.id, name |-> first.function.name]]
    ELSE [k \in 1..Len(s.completion.tool_calls.calls) |->
            [id |-> s.completion.tool_calls.calls[k].id,
             name |-> s.completion.tool_calls.calls[k].function.name]]

Started == {t \in AllTurns : turn[t].pc \notin {"unused", "idle"}}
Returned == {t \in AllTurns : turn[t].pc = "returned"}

\* ----------------------------------------------------------------- claims
\* C1: a returned turn whose primary response carried N >= 1 tool-call
\* requests has exactly N toolCalls entries, the k-th with the id and name of
\* the k-th request (streams: requests by call-slot index, each slot opening
\* with its id and name).
C1_OneToolCallPerRequest ==
    \A t \in Returned :
        LET s == turn[t]
            requested == RequestedCalls(s)
        IN (Len(requested) >= 1 /\ (s.onChunk => WellFormed(s.stream)))
           => /\ s.result.hasToolCalls
              /\ Len(s.result.toolCalls) = Len(requested)
              /\ \A k \in 1..Len(requested) :
                    /\ s.result.toolCalls[k].id = requested[k].id
                    /\ s.result.toolCalls[k].name = requested[k].name

\* C6: the accumulator holds one request per call slot of the stream, with the
\* id and name of the slot's first fragment and, as arguments, the in-order
\* concatenation of the slot's argument fragments.
C6_MergedByCallSlot ==
    \A t \in Started :
        LET s == turn[t]
        IN (s.onChunk /\ WellFormed(s.stream))
           => /\ Len(s.accumulatedToolCalls) = Cardinality(SlotsOf(s.stream))
              /\ \A k \in 1..Cardinality(SlotsOf(s.stream)) :
                    LET fragments == SlotFragments(s.stream, SlotOfRequest(s.stream, k))
                        request == s.accumulatedToolCalls[k]
                    IN /\ request.id = Head(fragments).id
                       /\ request.function.name = Head(fragments).function.name
                       /\ request.function.arguments = ArgumentsOf(fragments)

\* C2: once the executor of a call has thrown, that call's promise is
\* fulfilled with a ToolCall carrying the request's id and name and the error
\* value "Failed to execute <name>: <description>"; every other call was handed
\* to the executor, is still running or has settled with its own outcome; the
\* turn goes on to the follow-up call and can fail only if that call fails; a
\* returned TurnResult carries every call's ToolCall.
C2_ToolFailureContained ==
    \A t \in Started :
        LET s == turn[t]
            calls == OpenAiToolCalls(s)
        IN (\E k \in 1..Len(s.outcomes) : s.outcomes[k].kind = "threw")
           => /\ \A k \in 1..Len(s.outcomes) :
                    /\ s.outcomes[k].kind = "threw"
                         => /\ s.promises[k].state = "fulfilled"
                            /\ s.promises[k].value.id = calls[k].id
                            /\ s.promises[k].value.name = calls[k].function.name
                            /\ s.promises[k].value.result =
                                 {<<"error",
                                    "\"Failed to execute " \o calls[k].function.name \o ": "
                                    \o (IF s.outcomes[k].thrown.isError
                                        THEN s.outcomes[k].thrown.message ELSE "Unknown error")
                                    \o "\"">>}
                    /\ s.outcomes[k].kind = "returned"
                         => /\ s.promises[k].state = "fulfilled"
                            /\ s.promises[k].value.id = calls[k].id
                            /\ s.promises[k].value.result = s.outcomes[k].value
                    /\ s.outcomes[k].kind = "running"
                         => /\ s.promises[k].state = "pending"
                            /\ s.pc = "tools"
                            /\ ENABLED ToolReturns(t, k)
                    /\ s.outcomes[k].kind # "unparsed"
                         => \E c \in 1..Len(s.executorCalls) :
                               /\ s.executorCalls[c].call = k
                               /\ s.executorCalls[c].name = calls[k].function.name
              /\ s.pc \in {"tools", "followup", "returned", "failed"}
              /\ s.pc = "failed" => (s.completionCalls = 2 /\ s.error = CompletionError)
              /\ s.pc # "tools"
                   => /\ s.completionCalls = 2
                      /\ \A k \in 1..Len(s.promises) : s.promises[k].state = "fulfilled"
              /\ s.pc = "returned"
                   => /\ s.result.hasToolCalls
                      /\ s.result.toolCalls = [k \in 1..Len(calls) |-> s.promises[k].value]

\* C2's case: a returned turn of two calls, the first of which threw an Error
\* and the second of which returned.
C2_Witness ==
    \E t \in Returned :
        /\ Len(turn[t].outcomes) = 2
        /\ turn[t].outcomes[1].kind = "threw"
        /\ turn[t].outcomes[1].thrown.isError
        /\ turn[t].outcomes[2].kind = "returned"

\* C3: once the primary stream has raised, the turn has failed with the
\* stream-processing error, has no TurnResult, has run no tool and has made no
\* completion call besides the primary one.
C3_StreamFaultFailsTurn ==
    \A t \in Started :
        LET s == turn[t]
        IN s.faulted
           => /\ s.pc = "failed"
              /\ s.error = StreamError
              /\ s.result = NoResult
              /\ s.promises = <<>>
              /\ s.executorCalls = <<>>
              /\ s.followUpRequest = <<>>
              /\ s.completionCalls = 1

\* C3's case: the stream raised after content and tool-call fragments arrived.
C3_Witness ==
    \E t \in Started :
        /\ turn[t].faulted
        /\ Len(turn[t].stream) = MaxChunks
        /\ turn[t].fullContent # ""
        /\ Len(turn[t].accumulatedToolCalls) > 0

\* The content-only response with content c: as a blocking completion, and as
\* the streams that split c into fragments.
ContentOnlyCompletion(c) ==
    [hasChoice |-> TRUE, content |-> c, tool_calls |-> [present |-> FALSE, calls |-> <<>>]]

RECURSIVE Joined(_)
Joined(pieces) == IF pieces = <<>> THEN "" ELSE Head(pieces) \o Joined(Tail(pieces))

Splits(c) ==
    {pieces \in UNION {[1..n -> ContentPieces] : n \in 0..MaxChunks} : Joined(pieces) = c}

\* The content processMessage returns for it in blocking mode, and in
\* streaming mode when it arrives as the fragments `pieces`.
RECURSIVE Consumed(_, _)
Consumed(s, pieces) ==
    IF pieces = <<>> THEN s
    ELSE Consumed(ConsumeChunk(s, Chunk(Head(pieces), <<>>)), Tail(pieces))

BlockingContent(c) ==
    handleNonStreamResponse(NewTurn("primary"), ContentOnlyCompletion(c)).result.content
StreamingContent(pieces) ==
    OnStreamEnd(Consumed([NewTurn("streaming") EXCEPT !.onChunk = TRUE], pieces)).result.content

\* A returned turn whose primary response carried no tool call at all: no
\* tool-call fragment in the stream, no tool_calls field in the completion.
ContentOnly(s) ==
    /\ s.pc = "returned"
    /\ IF s.onChunk THEN FragmentsOf(s.stream) = <<>>
       ELSE s.completion.hasChoice /\ ~s.completion.tool_calls.present
PrimaryContent(s) == IF s.onChunk THEN ContentOf(s.stream) ELSE s.completion.content

\* C4 as claimed: the content a turn returns for a content-only response is
\* the content the other mode returns for the same response, whatever the
\* content (empty or absent included) and however it is split into fragments.
C4_ModesAgreeOnAnyContent ==
    \A t \in Returned :
        LET s == turn[t]
        IN ContentOnly(s)
           => IF s.onChunk
              THEN s.result.content = BlockingContent(PrimaryContent(s))
              ELSE \A pieces \in Splits(PrimaryContent(s)) :
                      StreamingContent(pieces) = s.result.content

\* C4 as amended: the two modes return equal content when the response's
\* content is not empty; for empty or absent content the blocking mode returns
\* its fallback text and the streaming mode the empty text.
C4_ModesAgreeOnContent ==
    \A t \in Returned :
        LET s == turn[t]
            c == PrimaryContent(s)
        IN ContentOnly(s)
           => /\ (c # "" /\ s.onChunk) => s.result.content = BlockingContent(c)
              /\ (c # "" /\ ~s.onChunk)
                   => \A pieces \in Splits(c) : StreamingContent(pieces) = s.result.content
              /\ (c = "" /\ s.onChunk)
                   => (s.result.content = "" /\ BlockingContent(c) = NoContentFallback)
              /\ (c = "" /\ ~s.onChunk)
                   => /\ s.result.content = NoContentFallback
                      /\ \A pieces \in Splits(c) : StreamingContent(pieces) = ""

\* C4's case: a streaming turn returned the content of a response that came
\* in more than one non-empty fragment.
C4_Witness ==
    \E t \in Returned :
        /\ turn[t].onChunk
        /\ ContentOnly(turn[t])
        /\ Len(turn[t].stream) >= 2
        /\ \A j \in 1..Len(turn[t].stream) : turn[t].stream[j].content # ""
        /\ turn[t].stream[1].content # turn[t].stream[2].content

\* C5: a returned TurnResult has toolCalls exactly when the primary response
\* requested at least one tool call.
C5_ToolCallsIffRequested ==
    \A t \in Returned :
        turn[t].result.hasToolCalls <=> Len(RequestedCalls(turn[t])) >= 1

\* C8: a follow-up completion call is made only after at least one tool call
\* was executed, and always then; a returned turn whose primary response
\* requested no tool call made one completion call and returns the primary
\* response's content (when it has any).
C8_FollowUpIffToolExecuted ==
    \A t \in Started :
        LET s == turn[t]
        IN /\ s.completionCalls = 2 => Len(s.promises) >= 1
           /\ (s.pc = "returned" /\ Len(s.promises) >= 1) => s.completionCalls = 2
           /\ (s.pc = "returned" /\ Len(RequestedCalls(s)) = 0)
                => /\ s.completionCalls = 1
                   /\ PrimaryContent(s) # "" => s.result.content = PrimaryContent(s)

\* The JSON text of the results that occur: {"v":1}, {"v":2}, {"error":"..."}.
SerializedResult(result) ==
    IF result = {<<"v", "1">>} THEN "{\"v\":1}"
    ELSE IF result = {<<"v", "2">>} THEN "{\"v\":2}"
    ELSE LET m == CHOOSE m \in result : m[1] = "error" IN "{\"error\":" \o m[2] \o "}"

FollowUpMade == {t \in AllTurns : turn[t].completionCalls = 2}

\* C7: the follow-up request is the system message, the last min(3, |history|)
\* history messages in order, the user message, one assistant message with the
\* requests as they were handed over, and one tool message per ToolCall, the
\* k-th with the serialized result of the k-th ToolCall and the id of the k-th
\* request.
C7_FollowUpRequestShape ==
    \A t \in FollowUpMade :
        LET s == turn[t]
            request == s.followUpRequest
            h == s.conversationHistory
            w == IF Len(h) < 3 THEN Len(h) ELSE 3
            calls == OpenAiToolCalls(s)
        IN /\ Len(request) = 1 + w + 1 + 1 + Len(s.executedTools)
           /\ request[1] = [role |-> "system", content |-> FollowUpSystem]
           /\ \A j \in 1..w :
                 request[1 + j] = [role |-> h[Len(h) - w + j].role,
                                   content |-> h[Len(h) - w + j].content]
           /\ request[w + 2] = [role |-> "user", content |-> s.message]
           /\ request[w + 3].role = "assistant"
           /\ request[w + 3].tool_calls = calls
           /\ Len(s.executedTools) = Len(calls)
           /\ \A k \in 1..Len(s.executedTools) :
                 /\ s.executedTools[k].id = calls[k].id
                 /\ request[w + 3 + k].role = "tool"
                 /\ request[w + 3 + k].tool_call_id = calls[k].id
                 /\ request[w + 3 + k].content = SerializedResult(s.executedTools[k].result)

\* C7's case: a follow-up request after two tool calls that both returned,
\* with a history longer than the window.
C7_Witness ==
    \E t \in FollowUpMade :
        /\ Len(turn[t].conversationHistory) > 3
        /\ Len(turn[t].executedTools) = 2
        /\ \A k \in 1..2 : turn[t].outcomes[k].kind = "returned"

\* C9: the follow-up call is made only when no tool execution is running any
\* more; while an execution is running the turn waits for it, and it can
\* return or throw whatever the other executions have done.
C9_JoinBeforeFollowUp ==
    \A t \in Started :
        LET s == turn[t]
        IN /\ (s.completionCalls = 2 \/ s.pc \in {"followup", "returned"})
                => /\ \A k \in 1..Len(s.outcomes) : s.outcomes[k].kind # "running"
                   /\ \A k \in 1..Len(s.promises) : s.promises[k].state = "fulfilled"
                   /\ Len(s.completionOrder) = Len(s.promises)
           /\ \A k \in 1..Len(s.outcomes) :
                 s.outcomes[k].kind = "running"
                    => /\ s.pc = "tools"
                       /\ s.promises[k].state = "pending"
                       /\ ENABLED ToolReturns(t, k)
                       /\ ENABLED ToolThrows(t, k)

\* C9's case: the follow-up call was made after the first execution threw and
\* the second one, still running then, returned.
C9_Witness ==
    \E t \in FollowUpMade :
        /\ turn[t].completionOrder = <<1, 2>>
        /\ turn[t].outcomes[1].kind = "threw"
        /\ turn[t].outcomes[2].kind = "returned"

\* The ToolCall result the outcome of an execution stands for.
OutcomeIsResult(outcome, result) ==
    IF outcome.kind = "returned" THEN result = outcome.value
    ELSE \E m \in result : m[1] = "error"

\* C10: whatever the order the executions completed in, the k-th ToolCall and
\* the k-th tool message of the follow-up request belong to the k-th request,
\* and the TurnResult lists the ToolCalls in that order.
C10_RequestOrderKept ==
    \A t \in FollowUpMade :
        LET s == turn[t]
            request == s.followUpRequest
            calls == OpenAiToolCalls(s)
            n == Len(calls)
        IN /\ Len(s.executedTools) = n
           /\ \A k \in 1..n :
                 /\ s.executedTools[k].id = calls[k].id
                 /\ s.executedTools[k].name = calls[k].function.name
                 /\ OutcomeIsResult(s.outcomes[k], s.executedTools[k].result)
                 /\ request[Len(request) - n + k].role = "tool"
                 /\ request[Len(request) - n + k].tool_call_id = calls[k].id
                 /\ request[Len(request) - n + k].content =
                       SerializedResult(s.executedTools[k].result)
           /\ s.pc = "returned" => s.result.toolCalls = s.executedTools

\* C10's case: a returned turn whose second execution completed before its
\* first, with different results.
C10_Witness ==
    \E t \in Returned :
        /\ turn[t].completionOrder = <<2, 1>>
        /\ \A k \in 1..2 : turn[t].outcomes[k].kind = "returned"
        /\ turn[t].result.toolCalls[1].result # turn[t].result.toolCalls[2].result

\* C11: the primary request of a turn has |history| + 2 messages: the fixed
\* system message first, the user message with the given text last, and in
\* between the history messages, in order, each with its role and content.
C11_PromptShape ==
    \A t \in Started :
        LET s == turn[t]
            h == s.conversationHistory
        IN /\ Len(s.messages) = Len(h) + 2
           /\ s.messages[1].role = "system"
           /\ s.messages[1].content = systemPrompt
           /\ s.messages[Len(h) + 2].role = "user"
           /\ s.messages[Len(h) + 2].content = s.message
           /\ \A i \in 1..Len(h) :
                 /\ s.messages[i + 1].role = h[i].role
                 /\ s.messages[i + 1].content = h[i].content

\* C11's case: a prompt built from a history of several messages whose roles
\* and contents differ.
C11_Witness ==
    \E t \in Started :
        /\ Len(turn[t].conversationHistory) >= 3
        /\ turn[t].conversationHistory[1].content # turn[t].conversationHistory[3].content
        /\ turn[t].conversationHistory[1].role # turn[t].conversationHistory[2].role

\* C12: once fetching the tool schemas has failed, the turn has failed with
\* the registry's error, and it has made no completion call, no onChunk call
\* and no tool execution, and has no TurnResult.
C12_RegistryFailureFailsTurn ==
    \A t \in Started :
        LET s == turn[t]
        IN s.registryFailed
           => /\ s.pc = "failed"
              /\ s.error = RegistryError
              /\ s.completionCalls = 0
              /\ s.forwarded = <<>>
              /\ s.promises = <<>>
              /\ s.executorCalls = <<>>
              /\ s.followUpRequest = <<>>
              /\ s.result = NoResult

\* C12's case: the schemas could not be fetched in a streaming turn.
C12_Witness ==
    \E t \in Started :
        /\ turn[t].registryFailed
        /\ turn[t].onChunk
        /\ turn[t].pc = "failed"

\* Of the arguments texts that can arise, the one that is JSON is {"q":"x"},
\* the object with the one member q = "x"; every other non-empty one is
\* malformed.
Malformed(text) == text # "" /\ text # "{\"q\":\"x\"}"
ArgumentStructure(text) == IF text = "" THEN {} ELSE {<<"q", "\"x\"">>}

ExecutorCallsFor(s, k) == SelectSeq(s.executorCalls, LAMBDA c : c.call = k)

\* C13: in a turn whose tool calls were started, a request with malformed
\* arguments has a ToolCall with the request's id and name and an error
\* result, and the executor was not invoked for it; every other request was
\* handed to the executor once, with its name and its parsed arguments (the
\* empty structure for empty arguments), and its ToolCall is the executor's
\* outcome; the turn goes on to the follow-up call and fails only if that call
\* fails; a returned TurnResult carries one ToolCall per request.
C13_MalformedArgumentsContained ==
    \A t \in Started :
        LET s == turn[t]
            calls == OpenAiToolCalls(s)
        IN Len(s.promises) >= 1
           => /\ Len(s.promises) = Len(calls)
              /\ \A k \in 1..Len(calls) :
                    IF Malformed(calls[k].function.arguments)
                    THEN /\ ExecutorCallsFor(s, k) = <<>>
                         /\ s.outcomes[k].kind = "unparsed"
                         /\ s.promises[k].state = "fulfilled"
                         /\ s.promises[k].value.id = calls[k].id
                         /\ s.promises[k].value.name = calls[k].function.name
                         /\ \E m \in s.promises[k].value.result : m[1] = "error"
                    ELSE /\ Len(ExecutorCallsFor(s, k)) = 1
                         /\ ExecutorCallsFor(s, k)[1].name = calls[k].function.name
                         /\ ExecutorCallsFor(s, k)[1].args =
                               ArgumentStructure(calls[k].function.arguments)
                         /\ s.outcomes[k].kind \in {"running", "returned", "threw"}
                         /\ s.outcomes[k].kind = "running" => ENABLED ToolReturns(t, k)
                         /\ s.outcomes[k].kind = "returned"
                              => /\ s.promises[k].state = "fulfilled"
                                 /\ s.promises[k].value =
                                       [id |-> calls[k].id,
                                        name |-> calls[k].function.name,
                                        arguments |-> ArgumentStructure(calls[k].function.arguments),
                                        result |-> s.outcomes[k].value]
              /\ s.pc \in {"tools", "followup", "returned", "failed"}
              /\ s.pc = "failed" => (s.completionCalls = 2 /\ s.error = CompletionError)
              /\ s.pc = "returned"
                   => /\ s.result.hasToolCalls
                      /\ Len(s.result.toolCalls) = Len(calls)
                      /\ \A k \in 1..Len(calls) : s.result.toolCalls[k] = s.promises[k].value

\* C13's case: a returned turn of two requests, the first with malformed
\* arguments, the second with no arguments at all and executed.
C13_Witness ==
    \E t \in Returned :
        LET calls == OpenAiToolCalls(turn[t])
        IN /\ Len(calls) = 2
           /\ Malformed(calls[1].function.arguments)
           /\ calls[2].function.arguments = ""
           /\ turn[t].outcomes[2].kind = "returned"

\* The concluding sentence the script of a role ends with.
ConcludingSentence(role) ==
    IF role = "Office Staff" THEN OfficeConclusion ELSE BeautyConclusion

\* C14: whenever a sendMessage call of the chat UI resolves, the interview is
\* finished afterwards if the reply received contains the concluding sentence
\* of the selected role's script, and the step does not finish the interview if
\* the reply contains the concluding sentence of neither script.
C14_FinishedOnConcludingSentence ==
    [][\A i \in 1..Len(page.sends) :
          SendResolves(i)
             => LET reply == page.sends[i].streamingMessage
                IN /\ (page.role \in InterviewRoles
                         /\ includes(reply, ConcludingSentence(page.role)))
                        => page'.interviewStage = "finished"
                   /\ (\A role \in InterviewRoles : ~includes(reply, ConcludingSentence(role)))
                        => (page'.interviewStage = "finished"
                               => page.interviewStage = "finished")]_vars

\* C15: the content of a TurnResult with executed tool calls is the content
\* of the follow-up completion, or the text "Tool results processed
\* successfully." when that completion has no content; it is that text alone,
\* whatever content the primary response carried or forwarded.
C15_ContentFromFollowUp ==
    \A t \in Returned :
        LET s == turn[t]
        IN Len(s.result.toolCalls) >= 1
           => /\ s.completionCalls = 2
              /\ s.followUpCompletion.content # ""
                   => s.result.content = s.followUpCompletion.content
              /\ s.followUpCompletion.content = ""
                   => s.result.content = "Tool results processed successfully."

\* C15's case: a streaming turn whose primary response carried content, which
\* was forwarded, and a tool call, and whose follow-up completion has content.
C15_Witness ==
    \E t \in Returned :
        /\ Len(turn[t].result.toolCalls) >= 1
        /\ turn[t].forwarded # <<>>
        /\ PrimaryContent(turn[t]) # ""
        /\ turn[t].followUpCompletion.content # ""

\* The non-empty content fragments of a stream, in arrival order.
ContentFragments(stream) ==
    SelectSeq([j \in 1..Len(stream) |-> stream[j].content], LAMBDA c : c # "")

\* C16: at every moment of a streaming turn the onChunk calls made are exactly
\* the non-empty content fragments consumed so far, one call per fragment, in
\* arrival order; a TurnResult without tool calls has as content the
\* concatenation of the fragments passed to onChunk.  Without onChunk nothing
\* is forwarded.
C16_FragmentsForwardedInOrder ==
    \A t \in Started :
        LET s == turn[t]
        IN /\ s.onChunk => s.forwarded = ContentFragments(s.stream)
           /\ ~s.onChunk => s.forwarded = <<>>
           /\ (s.onChunk /\ s.pc = "returned" /\ ~s.result.hasToolCalls)
                => s.result.content = Joined(s.forwarded)

\* C16's case: a streaming turn returned without tool calls after two
\* different fragments with content.
C16_Witness ==
    \E t \in Returned :
        /\ turn[t].onChunk
        /\ ~turn[t].result.hasToolCalls
        /\ Len(turn[t].forwarded) = 2
        /\ turn[t].forwarded[1] # turn[t].forwarded[2]

\* C17: onChunk is invoked only while the primary stream is being consumed:
\* no step that ends the stream, runs or settles a tool call, makes the
\* follow-up call or receives its response makes an onChunk call.
C17_NoForwardingAfterStream ==
    [][\A t \in AllTurns :
          turn'[t].forwarded # turn[t].forwarded
             => /\ turn[t].pc = "streaming"
                /\ turn'[t].pc = "streaming"
                /\ turn[t].completionCalls = 1]_vars

\* C17's case: a streaming turn that forwarded content of the primary stream
\* and returned after a follow-up completion with content of its own.
C17_Witness ==
    \E t \in Returned :
        /\ turn[t].onChunk
        /\ turn[t].completionCalls = 2
        /\ turn[t].forwarded # <<>>
        /\ turn[t].followUpCompletion.content # ""
        /\ \A j \in 1..Len(turn[t].forwarded) :
              turn[t].forwarded[j] # turn[t].followUpCompletion.content

\* The primary response of a turn was received in full.
PrimaryConsumed(s) ==
    s.pc \in {"tools", "followup", "returned"} \/ (s.pc = "failed" /\ s.completionCalls = 2)

\* C18: a turn makes at most two completion calls; the executor is invoked at
\* most once per tool-call request handed over from the primary response, and
\* only once that response was received in full; from the follow-up call on no
\* tool call is started or settled and no completion call is made, whatever
\* the follow-up response requests.
C18_OneToolRound ==
    /\ [](\A t \in Started :
            LET s == turn[t]
            IN /\ s.completionCalls <= 2
               /\ s.executorCalls # <<>> => PrimaryConsumed(s)
               /\ Len(s.executorCalls) <= Len(OpenAiToolCalls(s))
               /\ \A k \in 1..Len(OpenAiToolCalls(s)) : Len(ExecutorCallsFor(s, k)) <= 1
               /\ \A c \in 1..Len(s.executorCalls) :
                     s.executorCalls[c].call \in 1..Len(OpenAiToolCalls(s))
               /\ s.pc = "returned"
                    => \A j \in 1..Len(s.result.toolCalls) :
                          \A r \in 1..Len(s.followUpCompletion.tool_calls) :
                              s.result.toolCalls[j].id # s.followUpCompletion.tool_calls[r].id)
    /\ [][\A t \in AllTurns :
            turn[t].completionCalls = 2
               => /\ turn'[t].completionCalls = 2
                  /\ turn'[t].executorCalls = turn[t].executorCalls
                  /\ turn'[t].promises = turn[t].promises
                  /\ turn'[t].outcomes = turn[t].outcomes
                  /\ turn'[t].pc \in {"followup", "returned", "failed"}]_vars

\* C18's case: a turn returned after one round of two tool calls although the
\* follow-up response requested a further tool call.
C18_Witness ==
    \E t \in Returned :
        /\ Len(turn[t].executorCalls) = 2
        /\ turn[t].followUpCompletion.tool_calls # <<>>
        /\ turn[t].completionCalls = 2

\* C19: a blocking turn whose primary response requested no tool call and had
\* no content (or no choice at all) does not fail, makes no further completion
\* call, and returns a TurnResult without toolCalls whose content is a
\* non-empty fallback text.
C19_BlockingFallback ==
    \A t \in Started :
        LET s == turn[t]
        IN (~s.onChunk /\ PrimaryConsumed(s) /\ Len(RequestedCalls(s)) = 0
              /\ (~s.completion.hasChoice \/ s.completion.content = ""))
           => /\ s.pc # "failed"
              /\ s.completionCalls = 1
              /\ s.pc = "returned"
                   => /\ ~s.result.hasToolCalls
                      /\ s.result.content # ""
                      /\ s.result.content \in {NoChoiceFallback, NoContentFallback}

\* The user can retry: the page is not loading, and the answer box or the role
\* selector is enabled.
CanRetry(p) == ~p.isLoading /\ (AnswerInputEnabled(p) \/ RoleSelectorEnabled(p))

\* C20: once a sendMessage call of the chat UI has rejected, the page
\* eventually is in a state where the user can retry; and whenever the page is
\* loading, it eventually is not.
C20_RetryAfterFailure ==
    /\ page.rejected ~> CanRetry(page)
    /\ page.isLoading ~> ~page.isLoading

\* What handleStreamResponse's accumulator holds after a stream, nothing else
\* having run.
RECURSIVE AccumulatedAlone(_)
AccumulatedAlone(stream) ==
    IF stream = <<>> THEN <<>>
    ELSE AccumulateToolCalls(AccumulatedAlone(SubSeq(stream, 1, Len(stream) - 1)),
                             stream[Len(stream)].tool_calls)

\* Invocation t is where it would be had it run alone with its arguments and
\* with what its own stream, completion, tools and follow-up call gave it.
AsRunAlone(t) ==
    LET s == turn[t]
        calls == OpenAiToolCalls(s)
    IN /\ s.message = MessageOf(t)
       /\ s.conversationHistory = HistoryOfLength(t)
       /\ s.messages = buildConversationMessages(MessageOf(t), HistoryOfLength(t))
       /\ s.forwarded = (IF s.onChunk THEN ContentFragments(s.stream) ELSE <<>>)
       /\ s.onChunk => /\ s.fullContent = ContentOf(s.stream)
                       /\ s.accumulatedToolCalls = AccumulatedAlone(s.stream)
       /\ s.pc \in {"tools", "followup"} \/ s.completionCalls = 2
            => /\ Len(s.promises) = Len(calls)
               /\ \A k \in 1..Len(calls) :
                     /\ s.promises[k].state = "pending" <=> s.outcomes[k].kind = "running"
                     /\ s.promises[k].state # "pending"
                          => /\ s.promises[k].value.id = calls[k].id
                             /\ s.promises[k].value.name = calls[k].function.name
                             /\ OutcomeIsResult(s.outcomes[k], s.promises[k].value.result)
       /\ s.completionCalls = 2
            => /\ s.executedTools = [k \in 1..Len(calls) |-> s.promises[k].value]
               /\ s.followUpRequest =
                      FollowUpMessages(MessageOf(t), HistoryOfLength(t), calls, s.executedTools)
       /\ s.pc = "returned"
            => s.result =
                 IF s.completionCalls = 2
                 THEN [content |-> IF s.followUpCompletion.content # ""
                                   THEN s.followUpCompletion.content ELSE FollowUpFallback,
                       hasToolCalls |-> TRUE,
                       toolCalls |-> s.executedTools]
                 ELSE [content |-> PrimaryContent(s), hasToolCalls |-> FALSE,
                       toolCalls |-> <<>>]

\* C21: two processMessage invocations that overlap on one ChatHandler do not
\* interfere: however their stream fragments, tool executions and completion
\* responses interleave, each invocation's forwarded chunks, follow-up request
\* and TurnResult are what its own arguments and its own responses give when
\* it runs alone, and a step of one invocation changes nothing of the other.
C21_OverlapDoesNotInterfere ==
    /\ [](\A t \in Started : AsRunAlone(t))
    /\ [][\A t \in AllTurns :
            turn'[t] # turn[t] => \A u \in AllTurns \ {t} : turn'[u] = turn[u]]_vars

\* C21's case: both invocations are in flight at once: one has consumed its
\* stream, forwarded its fragment, had its tool call executed and made its
\* follow-up request, while the other has forwarded a fragment of its own and
\* waits for its own tool call.
C21_Witness ==
    /\ turn[1].pc = "followup"
    /\ turn[1].forwarded = <<"a">>
    /\ Len(turn[1].executedTools) = 1
    /\ turn[2].pc = "tools"
    /\ turn[2].forwarded = <<"b">>
    /\ turn[2].promises[1].state = "pending"

\* C22: the primary and the follow-up completion call of one turn are given
\* the same model identifier, also when updateModel is called while the turn
\* is in flight.
C22_OneModelPerTurn ==
    \A t \in FollowUpMade : turn[t].followUpModel = turn[t].primaryModel

\* The follow-up call of the invocation was made and rejected.
FollowUpFailed(s) == s.pc = "failed" /\ s.completionCalls = 2

\* C23: a turn whose follow-up completion call failed after its tool calls
\* were executed has failed with the error of that call, not with the
\* stream-processing error, and has no TurnResult, so its executed ToolCalls
\* are not delivered; a turn has the stream-processing error only if its
\* primary stream raised while being consumed, before any tool was started
\* and before a follow-up call was made.
C23_FollowUpFailureSurfaces ==
    \A t \in Started :
        LET s == turn[t]
        IN /\ FollowUpFailed(s)
                => /\ s.error = CompletionError
                   /\ s.error # StreamError
                   /\ ~s.faulted
                   /\ s.result = NoResult
                   /\ s.result.toolCalls = <<>>
           /\ s.error = StreamError
                => /\ s.onChunk
                   /\ s.faulted
                   /\ s.pc = "failed"
                   /\ s.completionCalls = 1
                   /\ s.promises = <<>>

\* C23's case: a streaming turn executed its tool call, the executor returned
\* a value, and the follow-up call then failed.
C23_Witness ==
    \E t \in Started :
        /\ FollowUpFailed(turn[t])
        /\ turn[t].onChunk
        /\ Len(turn[t].executedTools) = 1
        /\ turn[t].outcomes[1].kind = "returned"
        /\ turn[t].fullContent # ""

\* A step of the page in which a sendMessage call is made, and the call made.
SendStarted == page'.started > page.started
StartedSend == page'.sends[Len(page'.sends)]

\* C24: in every reachable state of the chat UI at most one sendMessage call
\* is in flight; a call is made only while none is in flight and the stage is
\* not 'finished', and in stage 'start' only by handleRoleSelect, with the
\* role-selection message; outside stage 'start' no call is made by
\* handleRoleSelect, no role is taken, and a handleRoleSelect invocation
\* changes nothing.
C24_OneSendInFlight ==
    /\ [](Len(page.sends) <= 1)
    /\ [][SendStarted
            => /\ page.sends = <<>>
               /\ Len(page'.sends) = 1
               /\ page'.started = page.started + 1
               /\ page.interviewStage # "finished"
               /\ page.interviewStage = "start"
                    => /\ StartedSend.handler = "handleRoleSelect"
                       /\ page'.role \in InterviewRoles
                       /\ StartedSend.message = StartMessage(page'.role)
               /\ StartedSend.handler = "handleRoleSelect" => page.interviewStage = "start"
               /\ StartedSend.handler = "handleSubmit"
                    => page.interviewStage = "in_progress" /\ ~page.isLoading]_vars
    /\ [][page.interviewStage # "start"
            => /\ page'.role \in {page.role, ""}
               /\ SelectRole => page' = page]_vars

\* C24's case: after the role-selection message was answered, a second call,
\* made by handleSubmit, is in flight, and it is the only one.
C24_Witness ==
    /\ page.started = 2
    /\ Len(page.sends) = 1
    /\ page.sends[1].handler = "handleSubmit"
    /\ page.interviewStage = "in_progress"
    /\ page.isLoading

====
